---- MODULE Spec2Model ----
(***************************************************************************)
(* A model of algosdk/kmd.py: the KMDClient request/response layer.        *)
(*                                                                         *)
(* Texts (URLs, header values, JSON bodies, base64 and base32 strings) are *)
(* TLA+ strings and are built by concatenation, as the Python code builds  *)
(* them.  Python values read from JSON are records [type, v]; a dict is an *)
(* ordered sequence of [k, val] pairs (Python dicts keep insertion order). *)
(* Byte strings are sequences of integers 0..255.                          *)
(***************************************************************************)
EXTENDS Integers, Sequences, FiniteSets, TLC

VARIABLES
    kmd_token,    \* KMDClient.kmd_token
    kmd_address,  \* KMDClient.kmd_address
    op,           \* name of the operation of the last completed call
    args,         \* its arguments
    wire,         \* the HTTP requests it dispatched, in order
    reply,        \* what the transport gave back for the last of them
    ret,          \* how the call ended: a returned value or a raised error
    mtx,          \* the caller's MultisigTransaction object after the call
    th,           \* concurrent callers: each one's position in kmd_request
    net           \* concurrent callers: each one's own HTTP round trip

vars == <<kmd_token, kmd_address, op, args, wire, reply, ret, mtx, th, net>>

(***************************************************************************)
(* Bounds of the model.                                                    *)
(***************************************************************************)
MaxPks == 2       \* longest member-key list of a multisig account
MaxItems == 2     \* longest list a list_* response carries
NumCallers == 2   \* callers sharing one client in the concurrent runs

(***************************************************************************)
(* Python values.                                                          *)
(***************************************************************************)
PyDict(pairs) == [type |-> "dict", v |-> pairs]
PyList(items) == [type |-> "list", v |-> items]
PyStr(s) == [type |-> "str", v |-> s]
PyInt(n) == [type |-> "int", v |-> n]
PyBool(b) == [type |-> "bool", v |-> b]
PyNone == [type |-> "None", v |-> 0]
KV(k, val) == [k |-> k, val |-> val]

EmptyDict == PyDict(<<>>)

\* `key in d` for a dict d
HasKey(d, key) == \E i \in 1..Len(d.v) : d.v[i].k = key

\* d[key] for a dict d that has the key
GetItem(d, key) == d.v[(CHOOSE i \in 1..Len(d.v) : d.v[i].k = key)].val

\* Python truth value of a JSON-born value
Truthy(x) ==
    CASE x.type = "dict" -> Len(x.v) > 0
      [] x.type = "list" -> Len(x.v) > 0
      [] x.type = "str" -> x.v # ""
      [] x.type = "int" -> x.v # 0
      [] x.type = "bool" -> x.v
      [] OTHER -> FALSE

\* x == {} in Python: only an empty dict equals the empty dict
EqualsEmptyDict(x) == x.type = "dict" /\ Len(x.v) = 0

(***************************************************************************)
(* Outcomes of a call or of a step of it.                                  *)
(***************************************************************************)
Return(x) == [kind |-> "return", value |-> x, exc |-> "", arg |-> ""]
Raise(e, a) == [kind |-> "raise", value |-> PyNone, exc |-> e, arg |-> a]

\* F applied to the value of e, e evaluated once
With(e, F(_)) == CHOOSE y \in {F(x) : x \in {e}} : TRUE

\* F applied to what `out` returned; the error, if it raised one
Then(out, F(_)) == With(out, LAMBDA o : IF o.kind = "raise" THEN o ELSE F(o.value))

(***************************************************************************)
(* base64 (Python's base64.b64encode / b64decode on the standard alphabet).*)
(***************************************************************************)
B64Alphabet == "ABCDEFGHIJKLMNOPQRSTUVWXYZabcdefghijklmnopqrstuvwxyz0123456789+/"

B64Char(i) == SubSeq(B64Alphabet, i + 1, i + 1)

B64Val(ch) == IF ch = "=" THEN 0 ELSE CHOOSE i \in 0..63 : B64Char(i) = ch

ByteAt(bytes, i) == IF i <= Len(bytes) THEN bytes[i] ELSE 0

\* the four characters of the g-th group of three bytes (g counts from 0)
B64Group(bytes, g) ==
    LET n == Len(bytes)
        w == ByteAt(bytes, 3 * g + 1) * 65536 + ByteAt(bytes, 3 * g + 2) * 256
             + ByteAt(bytes, 3 * g + 3)
    IN  B64Char(w \div 262144) \o B64Char((w \div 4096) % 64)
        \o (IF 3 * g + 2 <= n THEN B64Char((w \div 64) % 64) ELSE "=")
        \o (IF 3 * g + 3 <= n THEN B64Char(w % 64) ELSE "=")

RECURSIVE B64From(_, _)
B64From(bytes, g) ==
    IF 3 * g >= Len(bytes) THEN "" ELSE B64Group(bytes, g) \o B64From(bytes, g + 1)

b64encode(bytes) == With(bytes, LAMBDA b : B64From(b, 0))

\* the bytes of the g-th group of four characters (g counts from 0)
B64Bytes(s, g) ==
    LET c(j) == SubSeq(s, 4 * g + j, 4 * g + j)
        w == B64Val(c(1)) * 262144 + B64Val(c(2)) * 4096 + B64Val(c(3)) * 64
             + B64Val(c(4))
    IN  <<w \div 65536>>
        \o (IF c(3) = "=" THEN <<>> ELSE <<(w \div 256) % 256>>)
        \o (IF c(4) = "=" THEN <<>> ELSE <<w % 256>>)

RECURSIVE B64BytesFrom(_, _)
B64BytesFrom(s, g) ==
    IF 4 * g >= Len(s) THEN <<>> ELSE B64Bytes(s, g) \o B64BytesFrom(s, g + 1)

\* b64decode of a padded text over the alphabet; anything else is
\* binascii.Error ("Incorrect padding")
b64decode(s) ==
    With(s, LAMBDA t : IF Len(t) % 4 = 0 THEN Return(B64BytesFrom(t, 0))
                       ELSE Raise("binascii.Error", "Incorrect padding"))

(***************************************************************************)
(* The address codec (algosdk.encoding): base32 of the public key followed *)
(* by a four-byte checksum, without padding.  The checksum of the SDK is   *)
(* the tail of SHA-512/256; Checksum stands in for it with a position-     *)
(* weighted sum, which keeps what the client relies on: it is a function   *)
(* of the key, and decode_address rejects a text whose tail does not match.*)
(***************************************************************************)
key_len_bytes == 32
check_sum_len_bytes == 4
address_len == 58

B32Alphabet == "ABCDEFGHIJKLMNOPQRSTUVWXYZ234567"

B32Char(i) == SubSeq(B32Alphabet, i + 1, i + 1)

B32Val(ch) == CHOOSE i \in 0..31 : B32Char(i) = ch

RECURSIVE WeightedSum(_, _)
WeightedSum(bytes, i) ==
    IF i > Len(bytes) THEN 0 ELSE (i * bytes[i] + 31 * WeightedSum(bytes, i + 1)) % 65536

Checksum(bytes) ==
    LET w == WeightedSum(bytes, 1)
    IN  <<w \div 256, w % 256, 255 - (w \div 256), 255 - (w % 256)>>

\* bit n (from 0, most significant first) of a byte string, 0 past its end
BitAt(bytes, n) ==
    IF n \div 8 + 1 > Len(bytes) THEN 0
    ELSE (bytes[n \div 8 + 1] \div (2 ^ (7 - (n % 8)))) % 2

B32Quint(bytes, i) ==
    16 * BitAt(bytes, 5 * i) + 8 * BitAt(bytes, 5 * i + 1) + 4 * BitAt(bytes, 5 * i + 2)
    + 2 * BitAt(bytes, 5 * i + 3) + BitAt(bytes, 5 * i + 4)

RECURSIVE B32From(_, _)
B32From(bytes, i) ==
    IF 5 * i >= 8 * Len(bytes) THEN "" ELSE B32Char(B32Quint(bytes, i)) \o B32From(bytes, i + 1)

\* bit n (from 0) of the quints q
QuintBit(q, n) == (q[n \div 5 + 1] \div (2 ^ (4 - (n % 5)))) % 2

QuintByte(q, k) ==
    128 * QuintBit(q, 8 * k) + 64 * QuintBit(q, 8 * k + 1) + 32 * QuintBit(q, 8 * k + 2)
    + 16 * QuintBit(q, 8 * k + 3) + 8 * QuintBit(q, 8 * k + 4) + 4 * QuintBit(q, 8 * k + 5)
    + 2 * QuintBit(q, 8 * k + 6) + QuintBit(q, 8 * k + 7)

\* base32 text -> bytes: the whole bytes its quints hold
B32Bytes(s) ==
    With([i \in 1..Len(s) |-> B32Val(SubSeq(s, i, i))] \o <<>>,
         LAMBDA q : [k \in 1..((5 * Len(q)) \div 8) |-> QuintByte(q, k - 1)] \o <<>>)

EncodeKey(key) ==
    IF Len(key) # key_len_bytes THEN Raise("WrongKeyBytesLengthError", "")
    ELSE With(key \o Checksum(key), LAMBDA b : Return(B32From(b, 0)))

encode_address(addr_bytes) == With(addr_bytes, EncodeKey)

\* the key of the decoded bytes, if their tail is its checksum
CheckedKey(decoded) ==
    With(SubSeq(decoded, 1, Len(decoded) - check_sum_len_bytes),
         LAMBDA key :
            IF Checksum(key) = SubSeq(decoded, Len(decoded) - check_sum_len_bytes + 1,
                                      Len(decoded))
            THEN Return(key) ELSE Raise("WrongChecksumError", ""))

DecodeText(addr) ==
    IF Len(addr) # address_len THEN Raise("WrongKeyLengthError", "")
    ELSE With(B32Bytes(addr), CheckedKey)

decode_address(addr) == With(addr, DecodeText)

(***************************************************************************)
(* JSON texts.  JsonDumps is json.dumps(data, indent=2), the form of the   *)
(* bodies the client sends; JsonCompact is the form without white space in *)
(* which the daemon answers.  Neither escapes: no text of the model holds  *)
(* a quote, a backslash or a control character.                            *)
(***************************************************************************)
Quoted(s) == "\"" \o s \o "\""

RECURSIVE JsonCompact(_)
RECURSIVE CompactPairs(_, _)
RECURSIVE CompactItems(_, _)
CompactPairs(pairs, i) ==
    IF i > Len(pairs) THEN ""
    ELSE (IF i > 1 THEN "," ELSE "") \o Quoted(pairs[i].k) \o ":"
         \o JsonCompact(pairs[i].val) \o CompactPairs(pairs, i + 1)

CompactItems(items, i) ==
    IF i > Len(items) THEN ""
    ELSE (IF i > 1 THEN "," ELSE "") \o JsonCompact(items[i]) \o CompactItems(items, i + 1)

JsonCompact(x) ==
    CASE x.type = "dict" -> "{" \o CompactPairs(x.v, 1) \o "}"
      [] x.type = "list" -> "[" \o CompactItems(x.v, 1) \o "]"
      [] x.type = "str" -> Quoted(x.v)
      [] x.type = "int" -> ToString(x.v)
      [] x.type = "bool" -> (IF x.v THEN "true" ELSE "false")
      [] OTHER -> "null"

RECURSIVE JsonIndent(_, _)
RECURSIVE IndentPairs(_, _, _)
RECURSIVE IndentItems(_, _, _)
IndentPairs(pairs, i, ind) ==
    IF i > Len(pairs) THEN ""
    ELSE (IF i > 1 THEN ",\n" ELSE "") \o ind \o Quoted(pairs[i].k) \o ": "
         \o JsonIndent(pairs[i].val, ind) \o IndentPairs(pairs, i + 1, ind)

IndentItems(items, i, ind) ==
    IF i > Len(items) THEN ""
    ELSE (IF i > 1 THEN ",\n" ELSE "") \o ind \o JsonIndent(items[i], ind)
         \o IndentItems(items, i + 1, ind)

\* x rendered at indentation ind (the white space before its closing bracket)
JsonIndent(x, ind) ==
    CASE x.type = "dict" ->
            IF Len(x.v) = 0 THEN "{}"
            ELSE "{\n" \o IndentPairs(x.v, 1, ind \o "  ") \o "\n" \o ind \o "}"
      [] x.type = "list" ->
            IF Len(x.v) = 0 THEN "[]"
            ELSE "[\n" \o IndentItems(x.v, 1, ind \o "  ") \o "\n" \o ind \o "]"
      [] x.type = "str" -> Quoted(x.v)
      [] x.type = "int" -> ToString(x.v)
      [] x.type = "bool" -> (IF x.v THEN "true" ELSE "false")
      [] OTHER -> "null"

JsonDumps(data) == With(data, LAMBDA d : JsonIndent(d, ""))

\* text contains needle
Contains(text, needle) ==
    \E i \in 1..(Len(text) - Len(needle) + 1) : SubSeq(text, i, i + Len(needle) - 1) = needle

\* how many times needle occurs in text
Occurrences(text, needle) ==
    Cardinality({i \in 1..(Len(text) - Len(needle) + 1) :
                    SubSeq(text, i, i + Len(needle) - 1) = needle})

(***************************************************************************)
(* The SDK's objects, as far as the client reads and writes them, and      *)
(* their msgpack transfer form (algosdk.encoding, algosdk.transaction).    *)
(* msgpack_encode is base64 of the packed bytes; the packed bytes are a    *)
(* class tag followed by the fields.                                       *)
(***************************************************************************)
Transaction(n) == [cls |-> "Transaction", n |-> n]
SignedTransaction(n, sig) == [cls |-> "SignedTransaction", n |-> n, sig |-> sig]
MultisigSubsig(pk, sig) == [public_key |-> pk, signature |-> sig]
MultisigObject(version, threshold, subsigs) ==
    [cls |-> "Multisig", version |-> version, threshold |-> threshold, subsigs |-> subsigs]

RECURSIVE SubsigBytes(_, _)
SubsigBytes(subsigs, i) ==
    IF i > Len(subsigs) THEN <<>>
    ELSE subsigs[i].public_key \o <<subsigs[i].signature>> \o SubsigBytes(subsigs, i + 1)

MsgpackBytes(obj) ==
    CASE obj.cls = "Transaction" -> <<1, obj.n>>
      [] obj.cls = "SignedTransaction" -> <<2, obj.n, obj.sig>>
      [] OTHER -> <<3, obj.version, obj.threshold, Len(obj.subsigs)>>
                  \o SubsigBytes(obj.subsigs, 1)

msgpack_encode(obj) == With(obj, LAMBDA o : b64encode(MsgpackBytes(o)))

UnpackSubsigs(bytes, count) ==
    [i \in 1..count |->
        MultisigSubsig(SubSeq(bytes, 5 + (i - 1) * (key_len_bytes + 1),
                                     4 + (i - 1) * (key_len_bytes + 1) + key_len_bytes),
                       bytes[4 + i * (key_len_bytes + 1)])]

Unpack(b) ==
    IF Len(b) = 2 /\ b[1] = 1 THEN Return(Transaction(b[2]))
    ELSE IF Len(b) = 3 /\ b[1] = 2 THEN Return(SignedTransaction(b[2], b[3]))
    ELSE IF Len(b) >= 4 /\ b[1] = 3 /\ Len(b) = 4 + b[4] * (key_len_bytes + 1)
         THEN Return(MultisigObject(b[2], b[3], UnpackSubsigs(b, b[4]) \o <<>>))
    ELSE Raise("UnpackValueError", "")

msgpack_decode(text) == Then(b64decode(text), Unpack)

\* a comprehension [f(x) for x in ...] given each f(x)'s outcome: the first
\* error raised, or the list of the values
FirstRaised(outs) ==
    IF \E i \in 1..Len(outs) : outs[i].kind = "raise"
    THEN outs[(CHOOSE i \in 1..Len(outs) : outs[i].kind = "raise"
                            /\ \A j \in 1..(i - 1) : outs[j].kind = "return")]
    ELSE Return([i \in 1..Len(outs) |-> outs[i].value] \o <<>>)

Comprehension(outs) == With(outs \o <<>>, FirstRaised)

\* transaction.Multisig(version, threshold, addresses): one subsig per address,
\* its public key decode_address of the address, no signature yet
Multisig(version, threshold, addresses) ==
    Then(Comprehension([i \in 1..Len(addresses) |-> decode_address(addresses[i])]),
         LAMBDA keys :
            Return(MultisigObject(version, threshold,
                        [i \in 1..Len(keys) |-> MultisigSubsig(keys[i], 0)] \o <<>>)))

\* Multisig.json_dictify(): the partial multisig the daemon is handed
json_dictify(msig) ==
    PyDict(<<KV("subsig",
                PyList([i \in 1..Len(msig.subsigs) |->
                    PyDict(<<KV("pk", PyStr(b64encode(msig.subsigs[i].public_key)))>>
                           \o (IF msig.subsigs[i].signature # 0
                               THEN <<KV("s", PyInt(msig.subsigs[i].signature))>>
                               ELSE <<>>))])),
             KV("thr", PyInt(msig.threshold)),
             KV("v", PyInt(msig.version))>>)

(***************************************************************************)
(* Protocol constants (algosdk.constants and the head of kmd.py).          *)
(***************************************************************************)
api_version_path_prefix == "/v1"
kmd_auth_header == "X-KMD-API-Token"
no_auth == {"/versions"}
unversioned_paths == {"/health"}
DefaultTimeout == 30

(***************************************************************************)
(* Inputs of the model: what callers pass and what the daemon and the      *)
(* transport may give back.                                                *)
(***************************************************************************)
KeyA == [i \in 1..key_len_bytes |-> i]
KeyB == [i \in 1..key_len_bytes |-> (7 * i + 3) % 256]
Keys == {KeyA, KeyB}
AddrA == encode_address(KeyA).value
AddrB == encode_address(KeyB).value
Addresses == {AddrA, AddrB}

Handles == {"tok1", "tok2"}

\* **kwargs of an operation: nothing, or params and timeout for kmd_request
NoKwargs == [params |-> <<>>, timeout |-> DefaultTimeout]
Kwargs == {NoKwargs, [params |-> <<KV("pretty", "a b")>>, timeout |-> 5]}

PkLists == UNION {[1..n -> Keys] : n \in 1..MaxPks}
ItemLists == UNION {[1..n -> Addresses] : n \in 0..MaxItems}

StrList(items) == PyList([i \in 1..Len(items) |-> PyStr(items[i])])

WalletDoc(id, name) == PyDict(<<KV("id", PyStr(id)), KV("name", PyStr(name))>>)

MsgDoc == PyDict(<<KV("message", PyStr("wallet not found"))>>)
ErrDoc == PyDict(<<KV("error", PyBool(TRUE)), KV("message", PyStr("wallet not found"))>>)

\* a signed copy of the multisig the daemon may answer /multisig/sign with
SignedMultisig == MultisigObject(1, 2, <<MultisigSubsig(KeyA, 7), MultisigSubsig(KeyB, 0)>>)

\* the documents the daemon answers an operation with when it succeeds
OpDocs(name) ==
    CASE name = "versions" -> {PyDict(<<KV("versions", StrList(<<"v1">>))>>)}
      [] name = "list_wallets" ->
            {PyDict(<<KV("wallets", PyList(ws))>>) :
                ws \in {<<>>, <<WalletDoc("abc", "w")>>,
                        <<WalletDoc("abc", "w"), WalletDoc("def", "x")>>}}
      [] name \in {"create_wallet", "rename_wallet"} ->
            {PyDict(<<KV("wallet", WalletDoc("abc", "w"))>>)}
      [] name \in {"get_wallet", "renew_wallet_handle"} ->
            {PyDict(<<KV("wallet_handle",
                         PyDict(<<KV("wallet", WalletDoc("abc", "w")),
                                  KV("expires_seconds", PyInt(59))>>))>>)}
      [] name = "init_wallet_handle" -> {PyDict(<<KV("wallet_handle_token", PyStr("tok1"))>>)}
      [] name = "export_master_derivation_key" ->
            {PyDict(<<KV("master_derivation_key", PyStr("bWRr"))>>)}
      [] name \in {"import_key", "generate_key", "import_multisig"} ->
            {PyDict(<<KV("address", PyStr(AddrA))>>)}
      [] name = "export_key" -> {PyDict(<<KV("private_key", PyStr("c2s="))>>)}
      [] name \in {"list_keys", "list_multisig"} ->
            {PyDict(<<KV("addresses", StrList(l))>>) : l \in ItemLists}
      [] name = "sign_transaction" ->
            {PyDict(<<KV("signed_transaction", PyStr(t))>>) :
                t \in {msgpack_encode(SignedTransaction(1, 9)), "AAAA"}}
      [] name = "export_multisig" ->
            {PyDict(<<KV("multisig_version", PyInt(1)), KV("threshold", PyInt(t)),
                      KV("pks", PyList([i \in 1..Len(ks) |-> PyStr(b64encode(ks[i]))]))>>) :
                ks \in PkLists, t \in {1, 2}}
      [] name = "sign_multisig_transaction" ->
            {PyDict(<<KV("multisig", PyStr(t))>>) : t \in {msgpack_encode(SignedMultisig), "AAAA"}}
      [] OTHER -> {}

OpNames ==
    {"versions", "list_wallets", "create_wallet", "get_wallet", "init_wallet_handle",
     "release_wallet_handle", "renew_wallet_handle", "rename_wallet",
     "export_master_derivation_key", "import_key", "export_key", "generate_key",
     "delete_key", "list_keys", "sign_transaction", "list_multisig", "import_multisig",
     "export_multisig", "delete_multisig", "sign_multisig_transaction"}

\* documents any endpoint may answer with: no payload, an error object with
\* an `error` field, and values that are no object
CommonDocs == {EmptyDict, ErrDoc, MsgDoc, PyList(<<>>), PyNone, PyStr("boom")}

DaemonDocs == CommonDocs \cup UNION {OpDocs(name) : name \in OpNames}

\* json.loads on the texts the daemon sends: the document the text renders,
\* JSONDecodeError for a text that renders none
DaemonTexts == [d \in DaemonDocs |-> JsonCompact(d)]

JsonLoads(text) ==
    With(text, LAMBDA t :
        IF \E d \in DaemonDocs : DaemonTexts[d] = t
        THEN Return(CHOOSE d \in DaemonDocs : DaemonTexts[d] = t)
        ELSE Raise("JSONDecodeError", t))

TransportError == [kind |-> "URLError", status |-> 0, body |-> ""]
Http(status, body) == [kind |-> "http", status |-> status, body |-> body]

ErrorReplies ==
    {TransportError}
    \cup {Http(500, b) : b \in {JsonCompact(MsgDoc), "boom", "{}", JsonCompact(PyStr("boom"))}}
    \cup {Http(404, JsonCompact(ErrDoc))}

\* what one round trip of the named operation may end in
Replies(name) ==
    ErrorReplies
    \cup {Http(200, JsonCompact(d)) : d \in (CommonDocs \ {MsgDoc, PyStr("boom")}) \cup OpDocs(name)}
    \cup {Http(200, "")}

(***************************************************************************)
(* KMDClient.kmd_request                                                   *)
(***************************************************************************)
RECURSIVE quote_plus(_)
quote_plus(text) ==
    IF text = "" THEN ""
    ELSE (IF Head(text) = " " THEN "+" ELSE Head(text)) \o quote_plus(Tail(text))

RECURSIVE UrlencodeFrom(_, _)
UrlencodeFrom(params, i) ==
    IF i > Len(params) THEN ""
    ELSE (IF i > 1 THEN "&" ELSE "") \o quote_plus(params[i].k) \o "="
         \o quote_plus(params[i].val) \o UrlencodeFrom(params, i + 1)

urlencode(params) == UrlencodeFrom(params, 1)

\* a header dict that carries the token on every path (C3 tells it from the client's)
AuthHeaderOnEveryPath(token, requrl) == <<KV(kmd_auth_header, token)>>

\* lines 44-47: the header dict
AuthHeader(token, requrl) ==
    IF requrl \in no_auth THEN <<>> ELSE <<KV(kmd_auth_header, token)>>

\* a URL that takes the prefix on every path (C4 tells it from the client's)
RequestUrlPrefixedAlways(address, requrl, params) ==
    address \o api_version_path_prefix \o requrl
    \o (IF Len(params) > 0 THEN "?" \o urlencode(params) ELSE "")

\* lines 49-52 and 57: the URL of the Request
RequestUrl(address, requrl, params) ==
    address
    \o (IF requrl \notin unversioned_paths THEN api_version_path_prefix \o requrl ELSE requrl)
    \o (IF Len(params) > 0 THEN "?" \o urlencode(params) ELSE "")

\* lines 53-55: the body; data is None or a dict
RequestData(data) ==
    With(data, LAMBDA d : IF Truthy(d) THEN [present |-> TRUE, text |-> JsonDumps(d)]
                          ELSE [present |-> FALSE, text |-> ""])

\* lines 44-58: the Request handed to urlopen
BuildRequest(token, address, method, requrl, params, data, timeout) ==
    [url |-> RequestUrl(address, requrl, params),
     headers |-> AuthHeader(token, requrl),
     method |-> method,
     data |-> RequestData(data),
     timeout |-> timeout]

\* x[key] in Python
Subscript(x, key) ==
    IF x.type = "dict"
    THEN (IF HasKey(x, key) THEN Return(GetItem(x, key)) ELSE Raise("KeyError", key))
    ELSE Raise("TypeError", key)

\* lines 64-67: the try block raises KMDHTTPError(json.loads(e)["message"]),
\* or the error of json.loads or of the subscript; the bare `except:` catches
\* whichever was raised, the KMDHTTPError included, and raises KMDHTTPError(e)
HttpErrorOutcome(e) ==
    With(Then(Then(JsonLoads(e), LAMBDA loaded : Subscript(loaded, "message")),
              LAMBDA message : Raise("KMDHTTPError", message.v)),
         LAMBDA tried : IF tried.kind = "raise" THEN Raise("KMDHTTPError", e) ELSE tried)

\* lines 59-68: what kmd_request ends in, given what urlopen met
HandleReply(r) ==
    IF r.kind = "URLError" THEN Raise("URLError", "")
    ELSE IF r.status < 200 \/ r.status > 299 THEN HttpErrorOutcome(r.body)
    ELSE JsonLoads(r.body)

\* a kmd_request that sends its request once more after a transport error
\* (C8 tells it from the client's)
kmd_request_retrying(method, requrl, params, data, timeout, r) ==
    With(BuildRequest(kmd_token, kmd_address, method, requrl, params, data, timeout),
         LAMBDA q : [wire |-> IF r.kind = "URLError" THEN <<q, q>> ELSE <<q>>,
                     out |-> HandleReply(r)])

\* the whole of kmd_request on the given reply: the requests it dispatches
\* and the outcome
kmd_request(method, requrl, params, data, timeout, r) ==
    With(data, LAMBDA d :
        [wire |-> <<BuildRequest(kmd_token, kmd_address, method, requrl, params, d, timeout)>>,
         out |-> HandleReply(r)])

(***************************************************************************)
(* The operations.  For each: the body it sends (.._query), what it makes  *)
(* of kmd_request's outcome (.._result), and the call as one action.  A    *)
(* caller makes one call at a time; NoCall says it is between calls.       *)
(***************************************************************************)
NoCall == ""
NoReply == [kind |-> "none", status |-> 0, body |-> ""]
NoMtx == [cls |-> "none"]
Tokens == {"secret-a", "secret-b"}
Address == "http://localhost:7833"

\* kmd_request(...)[key]
Field(out, key) == Then(out, LAMBDA x : Subscript(x, key))

\* `key in x` in Python, for a text key
PyIn(key, x) ==
    CASE x.type = "dict" -> Return(HasKey(x, key))
      [] x.type = "list" -> Return(\E i \in 1..Len(x.v) : x.v[i] = PyStr(key))
      [] x.type = "str" -> Return(Contains(x.v, key))
      [] OTHER -> Raise("TypeError", key)

Done(name, a, sent, r, out, m) ==
    /\ op' = name
    /\ args' = a
    /\ wire' = sent
    /\ reply' = r
    /\ ret' = out
    /\ mtx' = m
    /\ UNCHANGED <<kmd_token, kmd_address, th, net>>

versions ==
    /\ op = NoCall
    /\ \E kw \in Kwargs, r \in Replies("versions") :
        \E k \in {kmd_request("GET", "/versions", kw.params, PyNone, kw.timeout, r)} :
            Done("versions", [kw |-> kw], k.wire, r, Field(k.out, "versions"), NoMtx)

list_wallets_result(out) ==
    Then(out, LAMBDA res :
        Then(PyIn("wallets", res), LAMBDA has :
            IF has THEN Subscript(res, "wallets") ELSE Return(PyList(<<>>))))

list_wallets ==
    /\ op = NoCall
    /\ \E kw \in Kwargs, r \in Replies("list_wallets") :
        \E k \in {kmd_request("GET", "/wallets", kw.params, PyNone, kw.timeout, r)} :
            Done("list_wallets", [kw |-> kw], k.wire, r, list_wallets_result(k.out), NoMtx)

create_wallet_query(name, pswd, driver_name, master_deriv_key) ==
    PyDict(<<KV("wallet_driver_name", PyStr(driver_name)), KV("wallet_name", PyStr(name)),
             KV("wallet_password", PyStr(pswd))>>
           \o (IF Truthy(master_deriv_key)
               THEN <<KV("master_derivation_key", master_deriv_key)>> ELSE <<>>))

create_wallet ==
    /\ op = NoCall
    /\ \E mdk \in {PyNone, PyStr("bWRr")}, kw \in Kwargs, r \in Replies("create_wallet") :
        \E k \in {kmd_request("POST", "/wallet", kw.params,
                             create_wallet_query("w", "pw", "sqlite", mdk), kw.timeout, r)} :
            Done("create_wallet",
                 [name |-> "w", pswd |-> "pw", driver_name |-> "sqlite",
                  master_deriv_key |-> mdk, kw |-> kw],
                 k.wire, r, Field(k.out, "wallet"), NoMtx)

get_wallet_query(handle) == PyDict(<<KV("wallet_handle_token", PyStr(handle))>>)

get_wallet ==
    /\ op = NoCall
    /\ \E handle \in Handles, kw \in Kwargs, r \in Replies("get_wallet") :
        \E k \in {kmd_request("POST", "/wallet/info", kw.params, get_wallet_query(handle),
                             kw.timeout, r)} :
            Done("get_wallet", [handle |-> handle, kw |-> kw], k.wire, r,
                 Field(k.out, "wallet_handle"), NoMtx)

init_wallet_handle_query(id, password) ==
    PyDict(<<KV("wallet_id", PyStr(id)), KV("wallet_password", PyStr(password))>>)

init_wallet_handle ==
    /\ op = NoCall
    /\ \E kw \in Kwargs, r \in Replies("init_wallet_handle") :
        \E k \in {kmd_request("POST", "/wallet/init", kw.params,
                             init_wallet_handle_query("abc", "pw"), kw.timeout, r)} :
            Done("init_wallet_handle", [id |-> "abc", password |-> "pw", kw |-> kw],
                 k.wire, r, Field(k.out, "wallet_handle_token"), NoMtx)

\* `return not result`: true of every falsy response (C2 tells it from the client's)
release_wallet_handle_result_falsy(out) ==
    Then(out, LAMBDA result : Return(PyBool(~Truthy(result))))

\* `return result == {}` of release_wallet_handle, delete_key, delete_multisig
release_wallet_handle_result(out) ==
    Then(out, LAMBDA result : Return(PyBool(EqualsEmptyDict(result))))

release_wallet_handle_query(handle) == PyDict(<<KV("wallet_handle_token", PyStr(handle))>>)

release_wallet_handle ==
    /\ op = NoCall
    /\ \E handle \in Handles, kw \in Kwargs, r \in Replies("release_wallet_handle") :
        \E k \in {kmd_request("POST", "/wallet/release", kw.params,
                             release_wallet_handle_query(handle), kw.timeout, r)} :
            Done("release_wallet_handle", [handle |-> handle, kw |-> kw], k.wire, r,
                 release_wallet_handle_result(k.out), NoMtx)

renew_wallet_handle_query(handle) == PyDict(<<KV("wallet_handle_token", PyStr(handle))>>)

renew_wallet_handle ==
    /\ op = NoCall
    /\ \E handle \in Handles, kw \in Kwargs, r \in Replies("renew_wallet_handle") :
        \E k \in {kmd_request("POST", "/wallet/renew", kw.params,
                             renew_wallet_handle_query(handle), kw.timeout, r)} :
            Done("renew_wallet_handle", [handle |-> handle, kw |-> kw], k.wire, r,
                 Field(k.out, "wallet_handle"), NoMtx)

rename_wallet_query(id, password, new_name) ==
    PyDict(<<KV("wallet_id", PyStr(id)), KV("wallet_password", PyStr(password)),
             KV("wallet_name", PyStr(new_name))>>)

rename_wallet ==
    /\ op = NoCall
    /\ \E kw \in Kwargs, r \in Replies("rename_wallet") :
        \E k \in {kmd_request("POST", "/wallet/rename", kw.params,
                             rename_wallet_query("abc", "pw", "x"), kw.timeout, r)} :
            Done("rename_wallet", [id |-> "abc", password |-> "pw", new_name |-> "x", kw |-> kw],
                 k.wire, r, Field(k.out, "wallet"), NoMtx)

export_master_derivation_key_query(handle, password) ==
    PyDict(<<KV("wallet_handle_token", PyStr(handle)), KV("wallet_password", PyStr(password))>>)

export_master_derivation_key ==
    /\ op = NoCall
    /\ \E handle \in Handles, kw \in Kwargs, r \in Replies("export_master_derivation_key") :
        \E k \in {kmd_request("POST", "/master-key/export", kw.params,
                             export_master_derivation_key_query(handle, "pw"), kw.timeout, r)} :
            Done("export_master_derivation_key", [handle |-> handle, password |-> "pw", kw |-> kw],
                 k.wire, r, Field(k.out, "master_derivation_key"), NoMtx)

import_key_query(handle, private_key) ==
    PyDict(<<KV("wallet_handle_token", PyStr(handle)), KV("private_key", PyStr(private_key))>>)

import_key ==
    /\ op = NoCall
    /\ \E handle \in Handles, kw \in Kwargs, r \in Replies("import_key") :
        \E k \in {kmd_request("POST", "/key/import", kw.params, import_key_query(handle, "c2s="),
                             kw.timeout, r)} :
            Done("import_key", [handle |-> handle, private_key |-> "c2s=", kw |-> kw],
                 k.wire, r, Field(k.out, "address"), NoMtx)

export_key_query(handle, password, address) ==
    PyDict(<<KV("wallet_handle_token", PyStr(handle)), KV("wallet_password", PyStr(password)),
             KV("address", PyStr(address))>>)

export_key ==
    /\ op = NoCall
    /\ \E handle \in Handles, kw \in Kwargs, r \in Replies("export_key") :
        \E k \in {kmd_request("POST", "/key/export", kw.params,
                             export_key_query(handle, "pw", AddrA), kw.timeout, r)} :
            Done("export_key", [handle |-> handle, password |-> "pw", address |-> AddrA, kw |-> kw],
                 k.wire, r, Field(k.out, "private_key"), NoMtx)

\* display_mnemonic is accepted and not sent
generate_key_query(handle, display_mnemonic) ==
    PyDict(<<KV("wallet_handle_token", PyStr(handle))>>)

generate_key ==
    /\ op = NoCall
    /\ \E handle \in Handles, display_mnemonic \in BOOLEAN, kw \in Kwargs,
          r \in Replies("generate_key") :
        \E k \in {kmd_request("POST", "/key", kw.params,
                             generate_key_query(handle, display_mnemonic), kw.timeout, r)} :
            Done("generate_key",
                 [handle |-> handle, display_mnemonic |-> display_mnemonic, kw |-> kw],
                 k.wire, r, Field(k.out, "address"), NoMtx)

\* a delete_key body without the password (C6 tells it from the client's)
delete_key_query_unprotected(handle, password, address) ==
    PyDict(<<KV("wallet_handle_token", PyStr(handle)), KV("address", PyStr(address))>>)

delete_key_query(handle, password, address) ==
    PyDict(<<KV("wallet_handle_token", PyStr(handle)), KV("wallet_password", PyStr(password)),
             KV("address", PyStr(address))>>)

delete_key_result(out) ==
    Then(out, LAMBDA result : Return(PyBool(EqualsEmptyDict(result))))

delete_key ==
    /\ op = NoCall
    /\ \E handle \in Handles, kw \in Kwargs, r \in Replies("delete_key") :
        \E k \in {kmd_request("DELETE", "/key", kw.params,
                             delete_key_query(handle, "pw", AddrA), kw.timeout, r)} :
            Done("delete_key", [handle |-> handle, password |-> "pw", address |-> AddrA, kw |-> kw],
                 k.wire, r, delete_key_result(k.out), NoMtx)

list_keys_query(handle) == PyDict(<<KV("wallet_handle_token", PyStr(handle))>>)

\* list_keys reading its field as list_wallets does (C5 tells it from the client's)
list_keys_result_lenient(out) ==
    Then(out, LAMBDA result :
        Then(PyIn("addresses", result), LAMBDA has :
            IF has THEN Subscript(result, "addresses") ELSE Return(PyList(<<>>))))

list_keys_result(out) ==
    Then(out, LAMBDA result :
        IF Truthy(result) THEN Subscript(result, "addresses") ELSE Return(PyList(<<>>)))

list_keys ==
    /\ op = NoCall
    /\ \E handle \in Handles, kw \in Kwargs, r \in Replies("list_keys") :
        \E k \in {kmd_request("POST", "/key/list", kw.params, list_keys_query(handle),
                             kw.timeout, r)} :
            Done("list_keys", [handle |-> handle, kw |-> kw], k.wire, r,
                 list_keys_result(k.out), NoMtx)

sign_transaction_query(handle, password, txn, signing_address) ==
    PyDict(<<KV("wallet_handle_token", PyStr(handle)), KV("wallet_password", PyStr(password)),
             KV("transaction", PyStr(msgpack_encode(txn)))>>
           \o (IF Truthy(signing_address) THEN <<KV("public_key", signing_address)>> ELSE <<>>))

\* msgpack_decode of a value read from the response: a text is decoded,
\* anything else is no text to decode
DecodeValue(x) == IF x.type = "str" THEN msgpack_decode(x.v) ELSE Raise("TypeError", "")

sign_transaction_result(out) == Then(Field(out, "signed_transaction"), DecodeValue)

sign_transaction ==
    /\ op = NoCall
    /\ \E handle \in Handles, signing_address \in {PyNone, PyStr(AddrB)}, kw \in Kwargs,
          r \in Replies("sign_transaction") :
        \E k \in {kmd_request("POST", "/transaction/sign", kw.params,
                             sign_transaction_query(handle, "pw", Transaction(1), signing_address),
                             kw.timeout, r)} :
            Done("sign_transaction",
                 [handle |-> handle, password |-> "pw", txn |-> Transaction(1),
                  signing_address |-> signing_address, kw |-> kw],
                 k.wire, r, sign_transaction_result(k.out), NoMtx)

list_multisig_query(handle) == PyDict(<<KV("wallet_handle_token", PyStr(handle))>>)

list_multisig_result(out) ==
    Then(out, LAMBDA result :
        IF EqualsEmptyDict(result) THEN Return(PyList(<<>>))
        ELSE Subscript(result, "addresses"))

list_multisig ==
    /\ op = NoCall
    /\ \E handle \in Handles, kw \in Kwargs, r \in Replies("list_multisig") :
        \E k \in {kmd_request("POST", "/multisig/list", kw.params, list_multisig_query(handle),
                             kw.timeout, r)} :
            Done("list_multisig", [handle |-> handle, kw |-> kw], k.wire, r,
                 list_multisig_result(k.out), NoMtx)

\* an import body listing the keys last to first (C10 tells it from the client's)
import_multisig_query_reversed(handle, multisig) ==
    PyDict(<<KV("wallet_handle_token", PyStr(handle)),
             KV("multisig_version", PyInt(multisig.version)),
             KV("threshold", PyInt(multisig.threshold)),
             KV("pks", PyList([i \in 1..Len(multisig.subsigs) |->
                        PyStr(b64encode(multisig.subsigs[Len(multisig.subsigs) + 1 - i]
                                            .public_key))]))>>)

import_multisig_query(handle, multisig) ==
    PyDict(<<KV("wallet_handle_token", PyStr(handle)),
             KV("multisig_version", PyInt(multisig.version)),
             KV("threshold", PyInt(multisig.threshold)),
             KV("pks", PyList([i \in 1..Len(multisig.subsigs) |->
                                  PyStr(b64encode(multisig.subsigs[i].public_key))]))>>)

\* a Multisig a caller builds itself
FreshMultisig == MultisigObject(1, 1, <<MultisigSubsig(KeyB, 0)>>)

\* The caller passes a Multisig of its own, or the one its export_multisig
\* call has just returned; origin keeps the reply that one was built from.
import_multisig ==
    \E source \in {"own", "exported"} :
        /\ IF source = "own" THEN op = NoCall
           ELSE op = "export_multisig" /\ ret.kind = "return"
        /\ \E handle \in Handles, kw \in Kwargs, r \in Replies("import_multisig") :
            \E multisig \in {IF source = "own" THEN FreshMultisig ELSE ret.value} :
            \E k \in {kmd_request("POST", "/multisig/import", kw.params,
                                  import_multisig_query(handle, multisig), kw.timeout, r)} :
                Done("import_multisig",
                     [handle |-> handle, multisig |-> multisig, source |-> source,
                      origin |-> IF source = "own" THEN NoReply ELSE reply, kw |-> kw],
                     k.wire, r, Field(k.out, "address"), NoMtx)

export_multisig_query(handle, address) ==
    PyDict(<<KV("wallet_handle_token", PyStr(handle)), KV("address", PyStr(address))>>)

\* encoding.encode_address(base64.b64decode(p)) for one item of pks
ExportedAddress(p) ==
    IF p.type # "str" THEN Raise("TypeError", "")
    ELSE Then(b64decode(p.v), encode_address)

\* lines 399-402: the list comprehension over result["pks"]
ExportedAddresses(pks) ==
    IF pks.type # "list" THEN Raise("TypeError", "")
    ELSE Comprehension([i \in 1..Len(pks.v) |-> ExportedAddress(pks.v[i])])

\* lines 399-404: pks is read first, then multisig_version, then threshold
export_multisig_result(out) ==
    Then(out, LAMBDA result :
        Then(Then(Subscript(result, "pks"), ExportedAddresses), LAMBDA pks :
            Then(Subscript(result, "multisig_version"), LAMBDA version :
                Then(Subscript(result, "threshold"), LAMBDA threshold :
                    Multisig(version.v, threshold.v, pks)))))

export_multisig ==
    /\ op = NoCall
    /\ \E handle \in Handles, kw \in Kwargs, r \in Replies("export_multisig") :
        \E k \in {kmd_request("POST", "/multisig/export", kw.params,
                             export_multisig_query(handle, AddrA), kw.timeout, r)} :
            Done("export_multisig", [handle |-> handle, address |-> AddrA, kw |-> kw],
                 k.wire, r, export_multisig_result(k.out), NoMtx)

delete_multisig_query(handle, password, address) ==
    PyDict(<<KV("wallet_handle_token", PyStr(handle)), KV("wallet_password", PyStr(password)),
             KV("address", PyStr(address))>>)

delete_multisig_result(out) ==
    Then(out, LAMBDA result : Return(PyBool(EqualsEmptyDict(result))))

delete_multisig ==
    /\ op = NoCall
    /\ \E handle \in Handles, kw \in Kwargs, r \in Replies("delete_multisig") :
        \E k \in {kmd_request("DELETE", "/multisig", kw.params,
                             delete_multisig_query(handle, "pw", AddrA), kw.timeout, r)} :
            Done("delete_multisig",
                 [handle |-> handle, password |-> "pw", address |-> AddrA, kw |-> kw],
                 k.wire, r, delete_multisig_result(k.out), NoMtx)

(***************************************************************************)
(* sign_multisig_transaction.  mtx is the caller's object: the action      *)
(* takes it as it is before the call (args.mtx) and leaves it in the       *)
(* variable mtx as it is after.  ThatObject is a reference to it.          *)
(***************************************************************************)
AuthAbsent == [has |-> FALSE, val |-> PyNone]
AuthNone == [has |-> TRUE, val |-> PyNone]
AuthOf(addr) == [has |-> TRUE, val |-> PyStr(addr)]

UnsignedMultisig == MultisigObject(1, 2, <<MultisigSubsig(KeyA, 0), MultisigSubsig(KeyB, 0)>>)

MultisigTransactions ==
    {[cls |-> "MultisigTransaction", transaction |-> Transaction(1),
      multisig |-> UnsignedMultisig, auth_addr |-> a] :
        a \in {AuthAbsent, AuthNone, AuthOf(AddrB), AuthOf("NOT-AN-ADDRESS")}}

ThatObject == [type |-> "object", v |-> "mtx"]

\* lines 445-446 and 457: base64 of the raw key of a base32 address
RawKeyText(addr) == Then(decode_address(addr), LAMBDA key : Return(b64encode(key)))

\* lines 443-458: the body, or the error raised while it is built
\* getattr(mtx, "auth_addr", None) is not None
HasSigner(m) == m.auth_addr.has /\ m.auth_addr.val.type # "None"

sign_multisig_transaction_query(handle, password, public_key, m) ==
    Then(Return(json_dictify(m.multisig)), LAMBDA partial :
        Then(Return(msgpack_encode(m.transaction)), LAMBDA txn :
            Then(RawKeyText(public_key), LAMBDA pk :
                Then(IF HasSigner(m) THEN RawKeyText(m.auth_addr.val.v) ELSE Return(""),
                     LAMBDA signer :
                        Return(PyDict(<<KV("wallet_handle_token", PyStr(handle)),
                                        KV("wallet_password", PyStr(password)),
                                        KV("transaction", PyStr(txn)),
                                        KV("public_key", PyStr(pk)),
                                        KV("partial_multisig", partial)>>
                                      \o (IF HasSigner(m) THEN <<KV("signer", PyStr(signer))>>
                                          ELSE <<>>)))))))

\* a result step that clears the multisig slot when the call fails
\* (C7 tells it from the client's)
sign_multisig_transaction_result_clearing(m, out) ==
    With(Then(Field(out, "multisig"), DecodeValue), LAMBDA msig :
        IF msig.kind = "raise" THEN [ret |-> msig, mtx |-> [m EXCEPT !.multisig = PyNone]]
        ELSE [ret |-> Return(ThatObject), mtx |-> [m EXCEPT !.multisig = msig.value]])

\* lines 460-465: the outcome and the object after it
sign_multisig_transaction_result(m, out) ==
    With(Then(Field(out, "multisig"), DecodeValue), LAMBDA msig :
        IF msig.kind = "raise" THEN [ret |-> msig, mtx |-> m]
        ELSE [ret |-> Return(ThatObject), mtx |-> [m EXCEPT !.multisig = msig.value]])

sign_multisig_transaction ==
    /\ op = NoCall
    /\ \E handle \in Handles, public_key \in {AddrA, "NOT-AN-ADDRESS"},
          m \in MultisigTransactions, kw \in Kwargs :
        \E a \in {[handle |-> handle, password |-> "pw", public_key |-> public_key,
                   mtx |-> m, kw |-> kw]},
           query \in {sign_multisig_transaction_query(handle, "pw", public_key, m)} :
            IF query.kind = "raise"
            THEN Done("sign_multisig_transaction", a, <<>>, NoReply, query, m)
            ELSE \E r \in Replies("sign_multisig_transaction") :
                 \E k \in {kmd_request("POST", "/multisig/sign", kw.params, query.value,
                                       kw.timeout, r)} :
                 \E end \in {sign_multisig_transaction_result(m, k.out)} :
                    Done("sign_multisig_transaction", a, k.wire, r, end.ret, end.mtx)

(***************************************************************************)
(* kmd_request called by the caller itself, on any path.                   *)
(***************************************************************************)
Paths == {"/health", "/versions", "/wallets", "/key/list", "/v1/wallets"}

request ==
    /\ op = NoCall
    /\ \E method \in {"GET", "POST"}, requrl \in Paths, kw \in Kwargs,
          data \in {PyNone, PyDict(<<KV("wallet_handle_token", PyStr("tok1"))>>)},
          r \in Replies("list_wallets") :
        \E k \in {kmd_request(method, requrl, kw.params, data, kw.timeout, r)} :
            Done("kmd_request",
                 [method |-> method, requrl |-> requrl, data |-> data, kw |-> kw],
                 k.wire, r, k.out, NoMtx)

\* the caller is done with the result and ready for its next call
next_call ==
    /\ op # NoCall
    /\ op' = NoCall
    /\ args' = <<>>
    /\ wire' = <<>>
    /\ reply' = NoReply
    /\ ret' = Return(PyNone)
    /\ mtx' = NoMtx
    /\ UNCHANGED <<kmd_token, kmd_address, th, net>>

(***************************************************************************)
(* Several callers on one client.  Each call runs kmd_request in steps     *)
(* that calls of other callers interleave with: the caller builds its      *)
(* Request and urlopen opens a connection for it (Open), the daemon        *)
(* answers the connections in any order (Answer), and urlopen hands the    *)
(* caller the response of its connection (Close).  th is what each caller  *)
(* holds in its local variables, net the connections.                      *)
(***************************************************************************)
Callers == 1..NumCallers

NoCallMade == [name |-> NoCall, handle |-> ""]
Idle == [pc |-> "idle", call |-> NoCallMade, ret |-> Return(PyNone)]
Closed == [req |-> <<>>, reply |-> NoReply]

ConcCalls ==
    {[name |-> "versions", handle |-> ""],
     [name |-> "list_keys", handle |-> "tok1"],
     [name |-> "release_wallet_handle", handle |-> "tok2"]}

ConcReplies ==
    {TransportError, Http(500, JsonCompact(MsgDoc)), Http(200, "{}"),
     Http(200, JsonCompact(PyDict(<<KV("addresses", StrList(<<AddrA>>))>>)))}

\* what the called operation passes to kmd_request
CallRequest(call) ==
    CASE call.name = "versions" ->
            [method |-> "GET", requrl |-> "/versions", data |-> PyNone]
      [] call.name = "list_keys" ->
            [method |-> "POST", requrl |-> "/key/list", data |-> list_keys_query(call.handle)]
      [] call.name = "release_wallet_handle" ->
            [method |-> "POST", requrl |-> "/wallet/release",
             data |-> release_wallet_handle_query(call.handle)]

\* what the called operation makes of kmd_request's outcome
CallResult(call, out) ==
    CASE call.name = "versions" -> Field(out, "versions")
      [] call.name = "list_keys" -> list_keys_result(out)
      [] call.name = "release_wallet_handle" -> release_wallet_handle_result(out)

\* lines 44-59: the Request is built from the arguments, the token and the
\* address, and urlopen opens a connection of the caller's own for it
Open(c) ==
    /\ th[c].pc = "idle"
    /\ \E call \in ConcCalls :
       \E q \in {CallRequest(call)} :
       \E sent \in {BuildRequest(kmd_token, kmd_address, q.method, q.requrl, <<>>, q.data,
                                 DefaultTimeout)} :
        /\ th' = [th EXCEPT ![c] = [pc |-> "waiting", call |-> call, ret |-> Return(PyNone)]]
        /\ net' = [net EXCEPT ![c] = [req |-> <<sent>>, reply |-> NoReply]]
    /\ UNCHANGED <<kmd_token, kmd_address, op, args, wire, reply, ret, mtx>>

\* the daemon, or the transport, ends the round trip of one open connection
Answer(c) ==
    /\ net[c].req # <<>>
    /\ net[c].reply = NoReply
    /\ \E r \in ConcReplies : net' = [net EXCEPT ![c].reply = r]
    /\ UNCHANGED <<kmd_token, kmd_address, op, args, wire, reply, ret, mtx, th>>

\* a urlopen that hands every caller what the first connection received
\* (C9 tells it from the client's)
ResponseOfFirst(conns, c) == conns[1].reply

\* line 60: resp is what the caller's own urlopen call received
Response(conns, c) == conns[c].reply

\* lines 60-68 and the operation's return
Close(c) ==
    /\ th[c].pc = "waiting"
    /\ net[c].reply # NoReply
    /\ \E out \in {CallResult(th[c].call, HandleReply(Response(net, c)))} :
        th' = [th EXCEPT ![c].pc = "done", ![c].ret = out]
    /\ UNCHANGED <<kmd_token, kmd_address, op, args, wire, reply, ret, mtx, net>>

\* the caller is done with the result; its connection is gone
Forget(c) ==
    /\ th[c].pc = "done"
    /\ th' = [th EXCEPT ![c] = Idle]
    /\ net' = [net EXCEPT ![c] = Closed]
    /\ UNCHANGED <<kmd_token, kmd_address, op, args, wire, reply, ret, mtx>>

(***************************************************************************)
(* One caller.                                                             *)
(***************************************************************************)
Init ==
    /\ kmd_token \in Tokens
    /\ kmd_address = Address
    /\ op = NoCall
    /\ args = <<>>
    /\ wire = <<>>
    /\ reply = NoReply
    /\ ret = Return(PyNone)
    /\ mtx = NoMtx
    /\ th = [c \in Callers |-> Idle]
    /\ net = [c \in Callers |-> Closed]

Next ==
    \/ versions
    \/ list_wallets
    \/ create_wallet
    \/ get_wallet
    \/ init_wallet_handle
    \/ release_wallet_handle
    \/ renew_wallet_handle
    \/ rename_wallet
    \/ export_master_derivation_key
    \/ import_key
    \/ export_key
    \/ generate_key
    \/ delete_key
    \/ list_keys
    \/ sign_transaction
    \/ list_multisig
    \/ import_multisig
    \/ export_multisig
    \/ delete_multisig
    \/ sign_multisig_transaction
    \/ request
    \/ next_call

Spec == Init /\ [][Next]_vars

NextConcurrent == \E c \in Callers : Open(c) \/ Answer(c) \/ Close(c) \/ Forget(c)

SpecConcurrent == Init /\ [][NextConcurrent]_vars

(***************************************************************************)
(* What the properties speak of: the finished call held in op, args, wire, *)
(* reply, ret and mtx.                                                      *)
(***************************************************************************)
\* the method and path each operation hands to kmd_request
Endpoint(name) ==
    CASE name = "versions" -> [method |-> "GET", requrl |-> "/versions"]
      [] name = "list_wallets" -> [method |-> "GET", requrl |-> "/wallets"]
      [] name = "create_wallet" -> [method |-> "POST", requrl |-> "/wallet"]
      [] name = "get_wallet" -> [method |-> "POST", requrl |-> "/wallet/info"]
      [] name = "init_wallet_handle" -> [method |-> "POST", requrl |-> "/wallet/init"]
      [] name = "release_wallet_handle" -> [method |-> "POST", requrl |-> "/wallet/release"]
      [] name = "renew_wallet_handle" -> [method |-> "POST", requrl |-> "/wallet/renew"]
      [] name = "rename_wallet" -> [method |-> "POST", requrl |-> "/wallet/rename"]
      [] name = "export_master_derivation_key" ->
            [method |-> "POST", requrl |-> "/master-key/export"]
      [] name = "import_key" -> [method |-> "POST", requrl |-> "/key/import"]
      [] name = "export_key" -> [method |-> "POST", requrl |-> "/key/export"]
      [] name = "generate_key" -> [method |-> "POST", requrl |-> "/key"]
      [] name = "delete_key" -> [method |-> "DELETE", requrl |-> "/key"]
      [] name = "list_keys" -> [method |-> "POST", requrl |-> "/key/list"]
      [] name = "sign_transaction" -> [method |-> "POST", requrl |-> "/transaction/sign"]
      [] name = "list_multisig" -> [method |-> "POST", requrl |-> "/multisig/list"]
      [] name = "import_multisig" -> [method |-> "POST", requrl |-> "/multisig/import"]
      [] name = "export_multisig" -> [method |-> "POST", requrl |-> "/multisig/export"]
      [] name = "delete_multisig" -> [method |-> "DELETE", requrl |-> "/multisig"]
      [] name = "sign_multisig_transaction" -> [method |-> "POST", requrl |-> "/multisig/sign"]

\* the call dispatched a request
Sent == op # NoCall /\ Len(wire) > 0

\* the method and the path kmd_request was called with
CalledMethod == IF op = "kmd_request" THEN args.method ELSE Endpoint(op).method
CalledPath == IF op = "kmd_request" THEN args.requrl ELSE Endpoint(op).requrl

\* the query string of the call
QueryString == IF Len(args.kw.params) > 0 THEN "?" \o urlencode(args.kw.params) ELSE ""

\* the body of the dispatched request
Body == wire[1].data.text

\* the body has the field, with the text value
Carries(body, key, value) == Contains(body, "\"" \o key \o "\": \"" \o value \o "\"")
HasField(body, key) == Contains(body, "\"" \o key \o "\": ")

\* the call met an HTTP response with a status outside / inside 200..299
Refused == op # NoCall /\ reply.kind = "http" /\ (reply.status < 200 \/ reply.status > 299)
Answered == op # NoCall /\ reply.kind = "http" /\ reply.status >= 200 /\ reply.status <= 299

\* the response was a JSON document; Document is that document
Parsed == Answered /\ JsonLoads(reply.body).kind = "return"
Document == JsonLoads(reply.body).value

\* the `message` of an error body that is an object with one, else the body
MessageOrBody(body) ==
    With(JsonLoads(body), LAMBDA d :
        IF d.kind = "return" /\ d.value.type = "dict" /\ HasKey(d.value, "message")
        THEN GetItem(d.value, "message").v ELSE body)

(***************************************************************************)
(* C1                                                                      *)
(***************************************************************************)
\* C1: every non-2xx response makes the call raise KMDHTTPError carrying the
\* body's `message` field when the body is a JSON object with one, and the
\* raw body text otherwise.  (The client does not meet this: see
\* HttpErrorOutcome.)
C1_MessageCarried ==
    Refused => ret = Raise("KMDHTTPError", MessageOrBody(reply.body))

\* what the client does instead: the error always carries the raw body text
C1_RawBodyCarried ==
    Refused => ret = Raise("KMDHTTPError", reply.body)

C1_Witness ==
    /\ Refused
    /\ reply = Http(500, "{\"message\":\"wallet not found\"}")
    /\ ret = Raise("KMDHTTPError", "{\"message\":\"wallet not found\"}")

(***************************************************************************)
(* C2                                                                      *)
(***************************************************************************)
EmptyObjectOps == {"release_wallet_handle", "delete_key", "delete_multisig"}

\* C2: release_wallet_handle, delete_key and delete_multisig return True if
\* and only if the successful response body is the empty JSON object; on
\* every other response they return False or raise.
C2_TrueIffEmptyObject ==
    op \in EmptyObjectOps =>
        /\ ret = Return(PyBool(TRUE)) <=> (Answered /\ reply.body = "{}")
        /\ ret.kind = "return" => ret.value \in {PyBool(TRUE), PyBool(FALSE)}

C2_Witness ==
    /\ op = "release_wallet_handle"
    /\ reply = Http(200, "{}")
    /\ ret = Return(PyBool(TRUE))

(***************************************************************************)
(* C3                                                                      *)
(***************************************************************************)
\* C3: a dispatched request carries the auth header with the client's token
\* if the path is not in the no-auth set and no auth header if it is; the
\* path alone decides.
C3_AuthByPath ==
    Sent => \A i \in 1..Len(wire) :
        wire[i].headers = IF CalledPath \in no_auth THEN <<>>
                          ELSE <<KV(kmd_auth_header, kmd_token)>>

C3_Witness ==
    /\ Sent
    /\ op = "kmd_request"
    /\ args.requrl = "/versions"
    /\ args.method = "POST"
    /\ wire[1].data.present
    /\ wire[1].headers = <<>>

(***************************************************************************)
(* C4                                                                      *)
(***************************************************************************)
\* C4: for a path outside the unversioned set the URL is base address +
\* version prefix + path (+ query string), the client adding the prefix
\* exactly once; for a path in the unversioned set no prefix is added.
C4_PrefixedOnce ==
    Sent => \A i \in 1..Len(wire) :
        IF CalledPath \notin unversioned_paths
        THEN /\ wire[i].url = kmd_address \o api_version_path_prefix \o CalledPath
                              \o QueryString
             /\ Occurrences(wire[i].url, api_version_path_prefix)
                = 1 + Occurrences(kmd_address, api_version_path_prefix)
                    + Occurrences(CalledPath, api_version_path_prefix)
                    + Occurrences(QueryString, api_version_path_prefix)
        ELSE /\ wire[i].url = kmd_address \o CalledPath \o QueryString
             /\ Occurrences(wire[i].url, api_version_path_prefix) = 0

C4_Witness ==
    /\ Sent
    /\ op = "list_keys"
    /\ wire[1].url = "http://localhost:7833/v1/key/list?pretty=a+b"
    /\ Occurrences(wire[1].url, "/v1") = 1

(***************************************************************************)
(* C5                                                                      *)
(***************************************************************************)
ListOps == {"list_wallets", "list_keys", "list_multisig"}
ListField(name) == IF name = "list_wallets" THEN "wallets" ELSE "addresses"

\* C5 (as stated): on a successful object response the three operations
\* return an empty sequence whenever the list field is absent or empty, and
\* the daemon's list otherwise, all three alike.
C5_AllAlike ==
    (op \in ListOps /\ Parsed /\ Document.type = "dict") =>
        IF HasKey(Document, ListField(op)) /\ Len(GetItem(Document, ListField(op)).v) > 0
        THEN ret = Return(GetItem(Document, ListField(op)))
        ELSE ret = Return(PyList(<<>>))

\* C5 (amended): on a successful object response each operation returns the
\* daemon's list, same length and order, when the list field is present;
\* when it is absent list_wallets returns an empty sequence, and list_keys
\* and list_multisig return an empty sequence for the empty object and
\* raise KeyError for any other object.
C5_ByOperation ==
    (op \in ListOps /\ Parsed /\ Document.type = "dict") =>
        IF HasKey(Document, ListField(op))
        THEN /\ ret.kind = "return"
             /\ ret.value.type = "list"
             /\ Len(ret.value.v) = Len(GetItem(Document, ListField(op)).v)
             /\ \A i \in 1..Len(ret.value.v) :
                    ret.value.v[i] = GetItem(Document, ListField(op)).v[i]
        ELSE IF op = "list_wallets" \/ Document = EmptyDict
        THEN ret = Return(PyList(<<>>))
        ELSE ret = Raise("KeyError", "addresses")

C5_Witness ==
    /\ op = "list_keys"
    /\ reply = Http(200, "{\"error\":true,\"message\":\"wallet not found\"}")
    /\ ret = Raise("KeyError", "addresses")

(***************************************************************************)
(* C6                                                                      *)
(***************************************************************************)
MutatingOps ==
    {"create_wallet", "rename_wallet", "release_wallet_handle", "renew_wallet_handle",
     "import_key", "generate_key", "delete_key", "import_multisig", "delete_multisig"}
SensitiveOps ==
    {"export_key", "export_master_derivation_key", "delete_key", "delete_multisig",
     "sign_transaction", "sign_multisig_transaction"}
WalletOps == {"create_wallet", "rename_wallet"}

\* C6 (as stated): every request of a mutating operation carries
\* wallet_handle_token, and every request of a security-sensitive operation
\* carries wallet_handle_token and wallet_password.
C6_AllCarryHandle ==
    Sent =>
        /\ op \in MutatingOps => HasField(Body, "wallet_handle_token")
        /\ op \in SensitiveOps => /\ HasField(Body, "wallet_handle_token")
                                  /\ HasField(Body, "wallet_password")

\* C6 (amended): every request of a mutating operation other than
\* create_wallet and rename_wallet carries the caller's wallet_handle_token;
\* the requests of create_wallet and rename_wallet carry wallet_password and
\* no wallet_handle_token; every request of a security-sensitive operation
\* carries the caller's wallet_handle_token and wallet_password.
C6_HandleButForWalletOps ==
    Sent =>
        /\ op \in MutatingOps \ WalletOps => Carries(Body, "wallet_handle_token", args.handle)
        /\ op \in WalletOps => /\ ~HasField(Body, "wallet_handle_token")
                               /\ HasField(Body, "wallet_password")
        /\ op \in SensitiveOps => /\ Carries(Body, "wallet_handle_token", args.handle)
                                  /\ Carries(Body, "wallet_password", args.password)

C6_Witness ==
    /\ Sent
    /\ op = "rename_wallet"
    /\ ~HasField(Body, "wallet_handle_token")
    /\ Carries(Body, "wallet_id", "abc")

(***************************************************************************)
(* C7                                                                      *)
(***************************************************************************)
\* C7: sign_multisig_transaction never changes mtx.transaction or
\* mtx.auth_addr; when it succeeds it returns the caller's mtx with the
\* multisig slot replaced by the decoded `multisig` of the response; when it
\* fails mtx is as it was before the call.
C7_OnlyMultisigOnSuccess ==
    op = "sign_multisig_transaction" =>
        /\ mtx.transaction = args.mtx.transaction
        /\ mtx.auth_addr = args.mtx.auth_addr
        /\ IF ret.kind = "return"
           THEN /\ ret.value = ThatObject
                /\ Parsed
                /\ Document.type = "dict"
                /\ HasKey(Document, "multisig")
                /\ msgpack_decode(GetItem(Document, "multisig").v) = Return(mtx.multisig)
           ELSE mtx = args.mtx

C7_Witness ==
    /\ op = "sign_multisig_transaction"
    /\ ret = Return(ThatObject)
    /\ args.mtx.multisig = UnsignedMultisig
    /\ mtx.multisig = SignedMultisig

(***************************************************************************)
(* C8                                                                      *)
(***************************************************************************)
\* C8: a call that ends in success, a transport error or a daemon error has
\* dispatched exactly one request, to the operation's own endpoint; no call
\* dispatches more than one.
C8_OneRequest ==
    op # NoCall =>
        /\ Len(wire) <= 1
        /\ (ret.kind = "return" \/ ret.exc \in {"URLError", "KMDHTTPError"}) => Len(wire) = 1
        /\ \A i \in 1..Len(wire) :
            /\ wire[i].method = CalledMethod
            /\ wire[i].url = RequestUrl(kmd_address, CalledPath, args.kw.params)

C8_Witness ==
    /\ op = "renew_wallet_handle"
    /\ reply = TransportError
    /\ ret = Raise("URLError", "")
    /\ Len(wire) = 1
    /\ wire[1].url = "http://localhost:7833/v1/wallet/renew"

(***************************************************************************)
(* C9                                                                      *)
(***************************************************************************)
\* each caller's request is that of its own call, each result that of its
\* own connection
OwnRequestAndResult ==
    \A c \in Callers :
        /\ th[c].pc # "idle" =>
            net[c].req = <<BuildRequest(kmd_token, kmd_address,
                                        CallRequest(th[c].call).method,
                                        CallRequest(th[c].call).requrl, <<>>,
                                        CallRequest(th[c].call).data, DefaultTimeout)>>
        /\ th[c].pc = "done" =>
            th[c].ret = CallResult(th[c].call, HandleReply(net[c].reply))

\* C9: under every interleaving of several callers on one client, each
\* caller's request is built from its own arguments and the token and
\* address, each caller gets the result or error of its own request, and no
\* step changes kmd_token or kmd_address.
C9_CallersApart ==
    /\ []OwnRequestAndResult
    /\ [][kmd_token' = kmd_token /\ kmd_address' = kmd_address]_vars

C9_Witness ==
    \E c, d \in Callers :
        /\ c # d
        /\ th[c].pc = "done"
        /\ th[d].pc = "done"
        /\ th[c].call.name = "list_keys"
        /\ th[d].call.name = "release_wallet_handle"
        /\ th[c].ret = Return(StrList(<<AddrA>>))
        /\ th[d].ret = Raise("KMDHTTPError", JsonCompact(MsgDoc))

(***************************************************************************)
(* C10                                                                     *)
(***************************************************************************)
\* the call is import_multisig on what export_multisig returned;
\* args.origin is the response export_multisig read
Reimported == Sent /\ op = "import_multisig" /\ args.source = "exported"
Exported == JsonLoads(args.origin.body).value

\* C10: import_multisig on the Multisig that export_multisig returned sends
\* the multisig_version, the threshold and the pks of the export response,
\* the keys in the same order.
C10_RoundTrip ==
    Reimported =>
        Body = JsonDumps(PyDict(<<KV("wallet_handle_token", PyStr(args.handle)),
                                  KV("multisig_version", GetItem(Exported, "multisig_version")),
                                  KV("threshold", GetItem(Exported, "threshold")),
                                  KV("pks", GetItem(Exported, "pks"))>>))

C10_Witness ==
    /\ Reimported
    /\ Len(GetItem(Exported, "pks").v) = 2
    /\ GetItem(Exported, "pks").v[1] # GetItem(Exported, "pks").v[2]
    /\ GetItem(Exported, "threshold") = PyInt(2)
    /\ Carries(Body, "wallet_handle_token", args.handle)

====
